---------------------------- MODULE Spec2Model ----------------------------
(***************************************************************************)
(* A model of go_news_rss (src/main.go): the ticker-driven poller          *)
(* (pollFeeds), the per-feed fetch-and-parse goroutine (fetchRSS), the     *)
(* SQLite table "rss" behind insertItem, and the retrieval handler         *)
(* (apiHandler) of GET /api/news/{count}.                                  *)
(*                                                                         *)
(* Text is a sequence of one-character strings, so that parsing            *)
(* (strconv.Atoi), byte-wise comparison (SQLite's BINARY collation) and    *)
(* SQLite's type affinity are computed and not assumed.                    *)
(***************************************************************************)
EXTENDS Integers, Sequences, FiniteSets, TLC

(***************************************************************************)
(* Bounds of the model.                                                    *)
(***************************************************************************)
NumFeeds == 2
MaxCycles == 2
MaxItems == 2
MaxDigits == 1
MaxFaults == 1

(***************************************************************************)
(* Program constants.                                                      *)
(***************************************************************************)
StatusOK == 200
StatusBadRequest == 400
StatusInternalServerError == 500

\* config.Feeds: the configured sources, by position.
Feeds == 1 .. NumFeeds

(***************************************************************************)
(* Text.                                                                   *)
(***************************************************************************)
Chars == {"+", "-", "0", "1", "2", "3", "4", "5", "6", "7", "8", "9",
          "D", "L", "M", "T", "a"}

\* The byte of a character (ASCII).
Code(c) ==
    CASE c = "+" -> 43 [] c = "-" -> 45
      [] c = "0" -> 48 [] c = "1" -> 49 [] c = "2" -> 50 [] c = "3" -> 51
      [] c = "4" -> 52 [] c = "5" -> 53 [] c = "6" -> 54 [] c = "7" -> 55
      [] c = "8" -> 56 [] c = "9" -> 57
      [] c = "D" -> 68 [] c = "L" -> 76 [] c = "M" -> 77 [] c = "T" -> 84
      [] c = "a" -> 97

IsDigit(c) == Code(c) >= 48 /\ Code(c) <= 57

DigitChar(d) == CHOOSE c \in Chars : Code(c) = 48 + d

EmptyText == << >>

\* All texts over alphabet A of length lo..hi.
TextsOver(A, lo, hi) == UNION { [1 .. n -> A] : n \in lo .. hi }

\* memcmp order with the shorter text first on a common prefix: Go's string
\* comparison and SQLite's BINARY collation.
RECURSIVE LexLess(_, _)
LexLess(a, b) ==
    IF Len(b) = 0 THEN FALSE
    ELSE IF Len(a) = 0 THEN TRUE
    ELSE IF Code(Head(a)) # Code(Head(b)) THEN Code(Head(a)) < Code(Head(b))
    ELSE LexLess(Tail(a), Tail(b))

LexLeq(a, b) == a = b \/ LexLess(a, b)

(***************************************************************************)
(* strconv.Atoi, as apiHandler calls it on the {count} path variable.      *)
(* The result is [err, n]; n is 0 when err.                                *)
(***************************************************************************)
\* The digits loop: n = n*10 + (ch - '0'), a syntax error on any other byte.
RECURSIVE AtoiDigits(_, _)
AtoiDigits(s, n) ==
    IF Len(s) = 0 THEN [err |-> FALSE, n |-> n]
    ELSE IF ~IsDigit(Head(s)) THEN [err |-> TRUE, n |-> 0]
    ELSE AtoiDigits(Tail(s), n * 10 + (Code(Head(s)) - 48))

\* A parse that stops at the first byte that is no digit and reports no
\* error (C's atoi).
RECURSIVE LenientDigits(_, _)
LenientDigits(s, n) ==
    IF Len(s) = 0 \/ ~IsDigit(Head(s)) THEN n
    ELSE LenientDigits(Tail(s), n * 10 + (Code(Head(s)) - 48))

AtoiLenient(s) ==
    IF Len(s) > 0 /\ Head(s) = "-"
    THEN [err |-> FALSE, n |-> 0 - LenientDigits(Tail(s), 0)]
    ELSE [err |-> FALSE, n |-> LenientDigits(s, 0)]

Atoi(s) ==
    IF Len(s) = 0 THEN [err |-> TRUE, n |-> 0]
    ELSE LET signed == Head(s) \in {"-", "+"}
             digits == IF signed THEN Tail(s) ELSE s
             r == AtoiDigits(digits, 0)
         IN  IF Len(digits) = 0 \/ r.err THEN [err |-> TRUE, n |-> 0]
             ELSE IF Head(s) = "-" THEN [err |-> FALSE, n |-> 0 - r.n]
             ELSE r

\* strconv.FormatInt(n, 10): how database/sql scans an integer into a string.
RECURSIVE ItoaNat(_)
ItoaNat(n) ==
    IF n < 10 THEN << DigitChar(n) >>
    ELSE Append(ItoaNat(n \div 10), DigitChar(n % 10))

Itoa(n) == IF n < 0 THEN << "-" >> \o ItoaNat(0 - n) ELSE ItoaNat(n)

(***************************************************************************)
(* The feed payload and xml.Unmarshal into RSS{Channel{Items []Item}}.     *)
(* A payload is [wf, elems]: whether the markup is well formed, and the    *)
(* item elements under channel, each with at most one title, description,  *)
(* link and pubDate child (a sequence of length 0 or 1).                   *)
(***************************************************************************)
Present(t) == << t >>
Absent == << >>

ElemFull ==
    [title |-> Present(<< "T" >>), description |-> Present(<< "D" >>),
     link |-> Present(<< "L" >>), pubDate |-> Present(<< "9" >>)]

ElemBare ==
    [title |-> Absent, description |-> Absent, link |-> Absent,
     pubDate |-> Absent]

\* The items a source rotates through.
SourceItems == << ElemFull, ElemBare >>

\* A string field of Item: the child's character data, "" when there is none.
FieldText(child) == IF Len(child) = 0 THEN EmptyText ELSE child[1]

\* One Item per item element.
DecodeItem(e) ==
    [Title |-> FieldText(e.title), Description |-> FieldText(e.description),
     Link |-> FieldText(e.link), PubDate |-> FieldText(e.pubDate)]

\* Unmarshal with its error dropped: what was decoded is used all the same.
UnmarshalIgnoringError(body) ==
    [err |-> FALSE,
     Items |-> [i \in 1 .. Len(body.elems) |-> DecodeItem(body.elems[i])]]

\* Unmarshal that keeps only the items that have a title.
UnmarshalSkippingUntitled(body) ==
    IF ~body.wf THEN [err |-> TRUE, Items |-> << >>]
    ELSE [err |-> FALSE,
          Items |-> SelectSeq([i \in 1 .. Len(body.elems) |-> DecodeItem(body.elems[i])],
                              LAMBDA it : it.Title # EmptyText)]

\* xml.Unmarshal(body, &rss): an error on markup that is not well formed,
\* else rss.Channel.Items.
Unmarshal(body) ==
    IF ~body.wf THEN [err |-> TRUE, Items |-> << >>]
    ELSE [err |-> FALSE,
          Items |-> [i \in 1 .. Len(body.elems) |-> DecodeItem(body.elems[i])]]

(***************************************************************************)
(* The table rss.  pubDate is declared DATETIME, which gives the column    *)
(* NUMERIC affinity: a bound text that is an integer literal is stored as  *)
(* an INTEGER, any other text as TEXT.  title, description and link are    *)
(* declared TEXT and keep the bound text.                                  *)
(***************************************************************************)
SqlText(t) == [cls |-> "text", n |-> 0, t |-> t]
SqlInteger(n) == [cls |-> "integer", n |-> n, t |-> EmptyText]

NumericAffinity(t) ==
    LET signed == Len(t) > 0 /\ Head(t) \in {"-", "+"}
        digits == IF signed THEN Tail(t) ELSE t
        r == AtoiDigits(digits, 0)
    IN  IF Len(digits) = 0 \/ r.err THEN SqlText(t)
        ELSE IF Head(t) = "-" THEN SqlInteger(0 - r.n)
        ELSE SqlInteger(r.n)

\* The row INSERT INTO rss (title, description, link, pubDate) adds; id is
\* AUTOINCREMENT and no row is ever deleted.
NewRow(rows, item) ==
    [id |-> Len(rows) + 1, title |-> item.Title,
     description |-> item.Description, link |-> item.Link,
     pubDate |-> NumericAffinity(item.PubDate)]

\* SQLite's comparison of two stored values: an INTEGER sorts before any
\* TEXT, INTEGERs by value, TEXT by memcmp.
SqlLess(a, b) ==
    IF a.cls # b.cls THEN a.cls = "integer"
    ELSE IF a.cls = "integer" THEN a.n < b.n
    ELSE LexLess(a.t, b.t)

\* ORDER BY pubDate DESC (rows of equal pubDate in rowid order).
RECURSIVE OrderByPubDateDesc(_)
OrderByPubDateDesc(rows) ==
    IF rows = {} THEN << >>
    ELSE LET first == CHOOSE r \in rows :
                 \A q \in rows \ {r} :
                     \/ SqlLess(q.pubDate, r.pubDate)
                     \/ ~SqlLess(r.pubDate, q.pubDate) /\ r.id < q.id
         IN  << first >> \o OrderByPubDateDesc(rows \ {first})

\* LIMIT ?: a negative limit is no limit.
Limit(seq, count) ==
    IF count < 0 \/ count >= Len(seq) THEN seq ELSE SubSeq(seq, 1, count)

\* rows.Scan(&item.Title, ...) into strings: TEXT as it is, an INTEGER in
\* decimal.
ColumnText(v) == IF v.cls = "integer" THEN Itoa(v.n) ELSE v.t

ScanRow(row) ==
    [Title |-> row.title, Description |-> row.description, Link |-> row.link,
     PubDate |-> ColumnText(row.pubDate)]

\* SELECT title, description, link, pubDate FROM rss ORDER BY pubDate DESC
\* LIMIT count, as the rows the cursor yields.
SelectRecent(rows, count) ==
    Limit(OrderByPubDateDesc({rows[i] : i \in 1 .. Len(rows)}), count)

(***************************************************************************)
(* What a source answers to http.Get: a transport error, nothing at all    *)
(* (the call never returns: no timeout is set), or a response with a       *)
(* status, a body that may fail to read, and a payload.  http.Get returns  *)
(* err = nil for any status.                                               *)
(***************************************************************************)
\* What a well-formed payload may carry: up to MaxItems consecutive items of
\* the source's rotation.
ElemSeqs ==
    {[i \in 1 .. n |-> SourceItems[((start + i - 2) % Len(SourceItems)) + 1]] :
        start \in 1 .. Len(SourceItems), n \in 0 .. MaxItems}

NoPayload == [wf |-> FALSE, elems |-> << >>]

Payloads ==
    {[wf |-> TRUE, elems |-> es] : es \in ElemSeqs}
        \cup {[wf |-> FALSE, elems |-> << ElemFull >>]}

Unreachable == [net |-> "err", status |-> 0, readErr |-> FALSE, body |-> NoPayload]
Hanging == [net |-> "hang", status |-> 0, readErr |-> FALSE, body |-> NoPayload]
BrokenBody == [net |-> "ok", status |-> 200, readErr |-> TRUE, body |-> NoPayload]

\* What a source may send with a non-2xx status: here, a feed all the same.
ErrorPayloads ==
    {[wf |-> TRUE, elems |-> << ElemFull >>]}

Answers ==
    {Unreachable, Hanging, BrokenBody}
        \cup {[net |-> "ok", status |-> 200, readErr |-> FALSE, body |-> b] :
                 b \in Payloads}
        \cup {[net |-> "ok", status |-> 404, readErr |-> FALSE, body |-> b] :
                 b \in ErrorPayloads}

\* config.Period as config.json may give it.
Periods == {0 - 1, 0, 1}

\* time.Duration(config.Period) * time.Minute, in minutes (the periods drawn
\* are far from the int64 range of nanoseconds).
Duration(minutes) == minutes

\* The {count} path variable: mux matches a non-empty segment.
CountParams ==
    {sign \o digits : sign \in {<< >>, << "-" >>},
                      digits \in TextsOver({"0", "1", "a"}, 1, MaxDigits)}

(***************************************************************************)
(* apiHandler's answer.                                                    *)
(***************************************************************************)
\* var items []Item: a nil slice, which encodes as null.
NilItems == [null |-> TRUE, arr |-> << >>]

\* items := []Item{}: an empty, non-nil slice, which encodes as [].
EmptyItems == [null |-> FALSE, arr |-> << >>]

\* No JSON body (http.Error writes plain text).
NoJson == [null |-> TRUE, arr |-> << >>]

NoResponse ==
    [param |-> EmptyText, status |-> 0, count |-> 0, queried |-> FALSE,
     json |-> NoJson]

\* The loop over rows: items = append(items, item) for each row scanned.
RECURSIVE ScanAll(_, _)
ScanAll(items, cursor) ==
    IF Len(cursor) = 0 THEN items
    ELSE ScanAll([null |-> FALSE, arr |-> Append(items.arr, ScanRow(Head(cursor)))],
                 Tail(cursor))

\* apiHandler on path variable p over table rows; queryOk is whether
\* db.Query returned without error.
ApiResponse(p, queryOk, rows) ==
    LET a == Atoi(p)
    IN  IF a.err
        THEN [param |-> p, status |-> StatusBadRequest, count |-> 0,
              queried |-> FALSE, json |-> NoJson]
        ELSE IF ~queryOk
        THEN [param |-> p, status |-> StatusInternalServerError,
              count |-> a.n, queried |-> TRUE, json |-> NoJson]
        ELSE [param |-> p, status |-> StatusOK, count |-> a.n,
              queried |-> TRUE,
              json |-> ScanAll(EmptyItems, SelectRecent(rows, a.n))]

(***************************************************************************)
(* State.                                                                  *)
(***************************************************************************)
VARIABLES
    feedResp,   \* what each source answers (the environment)
    period,     \* config.Period, in minutes
    sched,      \* pollFeeds: "Start" before time.NewTicker, "Idle" on ticker.C,
                \* "Fetching" from a tick to wg.Wait's return, "Panicked" once
                \* the process has died of a panic
    launched,   \* the fan-out loop's position in config.Feeds
    wg,         \* the cycle's sync.WaitGroup counter
    cycle,      \* ticks taken so far
    pc,         \* each fetchRSS goroutine's position
    rss,        \* each fetchRSS's rss.Channel.Items
    idx,        \* each fetchRSS's position in the range loop
    store,      \* the rows of table rss, in id order
    faults,     \* "Error inserting item" lines logged so far
    written,    \* history: the rows each source's fetches have added so far
    resp        \* what apiHandler answered in the step just taken, if it was a request

vars == << feedResp, period, sched, launched, wg, cycle, pc, rss, idx, store, faults, written, resp >>

Init ==
    /\ feedResp \in [Feeds -> Answers]
    /\ period \in Periods
    /\ sched = "Start"
    /\ launched = 0
    /\ wg = 0
    /\ cycle = 0
    /\ pc = [f \in Feeds |-> "none"]
    /\ rss = [f \in Feeds |-> << >>]
    /\ idx = [f \in Feeds |-> 0]
    /\ store = << >>
    /\ faults = 0
    /\ written = [f \in Feeds |-> 0]
    /\ resp = NoResponse

(***************************************************************************)
(* pollFeeds.                                                              *)
(***************************************************************************)
\* A poller that polls once at start-up, before it waits for its ticker.
NewTickerPollingAtOnce ==
    /\ sched = "Start"
    /\ sched' = IF Duration(period) <= 0 THEN "Panicked" ELSE "Fetching"
    /\ resp' = NoResponse
    /\ UNCHANGED << feedResp, period, launched, wg, cycle, pc, rss, idx, store, faults, written >>

\* time.NewTicker(d) panics when d <= 0, and a panic in a goroutine that
\* nothing recovers ends the process.
NewTicker ==
    /\ sched = "Start"
    /\ sched' = IF Duration(period) <= 0 THEN "Panicked" ELSE "Idle"
    /\ resp' = NoResponse
    /\ UNCHANGED << feedResp, period, launched, wg, cycle, pc, rss, idx, store, faults, written >>

\* for range ticker.C: a tick starts a cycle with a fresh WaitGroup.
Tick ==
    /\ sched = "Idle"
    /\ cycle < MaxCycles
    /\ sched' = "Fetching"
    /\ launched' = 0
    /\ wg' = 0
    /\ cycle' = cycle + 1
    /\ resp' = NoResponse
    /\ UNCHANGED << feedResp, period, pc, rss, idx, store, faults, written >>

\* wg.Add(1); fetchRSS(url, &wg) with no go statement: the loop goes on to
\* the next url when the call has returned.
LaunchInLine ==
    /\ sched = "Fetching"
    /\ launched < NumFeeds
    /\ launched = 0 \/ pc[launched] = "done"
    /\ launched' = launched + 1
    /\ wg' = wg + 1
    /\ pc' = [pc EXCEPT ![launched + 1] = "get"]
    /\ rss' = [rss EXCEPT ![launched + 1] = << >>]
    /\ idx' = [idx EXCEPT ![launched + 1] = 0]
    /\ resp' = NoResponse
    /\ UNCHANGED << feedResp, period, sched, cycle, store, faults, written >>

\* wg.Add(1); go fetchRSS(url, &wg) for the next url.
Launch ==
    /\ sched = "Fetching"
    /\ launched < NumFeeds
    /\ launched' = launched + 1
    /\ wg' = wg + 1
    /\ pc' = [pc EXCEPT ![launched + 1] = "get"]
    /\ rss' = [rss EXCEPT ![launched + 1] = << >>]
    /\ idx' = [idx EXCEPT ![launched + 1] = 0]
    /\ resp' = NoResponse
    /\ UNCHANGED << feedResp, period, sched, cycle, store, faults, written >>

\* A loop with no wg.Wait(): the cycle is over once the fan-out is.
LoopWithoutWait ==
    /\ sched = "Fetching"
    /\ launched = NumFeeds
    /\ sched' = "Idle"
    /\ resp' = NoResponse
    /\ UNCHANGED << feedResp, period, launched, wg, cycle, pc, rss, idx, store, faults, written >>

\* wg.Wait() returns once the counter is zero.
WaitDone ==
    /\ sched = "Fetching"
    /\ launched = NumFeeds
    /\ wg = 0
    /\ sched' = "Idle"
    /\ resp' = NoResponse
    /\ UNCHANGED << feedResp, period, launched, wg, cycle, pc, rss, idx, store, faults, written >>

(***************************************************************************)
(* fetchRSS.                                                               *)
(***************************************************************************)
\* return, with no wg.Done() deferred.
ReturnWithoutDone(f) ==
    /\ pc' = [pc EXCEPT ![f] = "done"]
    /\ wg' = wg

\* return, with the deferred wg.Done().
Return(f) ==
    /\ pc' = [pc EXCEPT ![f] = "done"]
    /\ wg' = wg - 1

\* resp, err := http.Get(url)
HttpGet(f) ==
    /\ pc[f] = "get"
    /\ feedResp[f].net # "hang"
    /\ IF feedResp[f].net = "err"
       THEN Return(f)
       ELSE pc' = [pc EXCEPT ![f] = "read"] /\ wg' = wg
    /\ resp' = NoResponse
    /\ UNCHANGED << feedResp, period, sched, launched, cycle, rss, idx, store, faults, written >>

\* body, err := ioutil.ReadAll(resp.Body)
ReadBody(f) ==
    /\ pc[f] = "read"
    /\ IF feedResp[f].readErr
       THEN Return(f)
       ELSE pc' = [pc EXCEPT ![f] = "parse"] /\ wg' = wg
    /\ resp' = NoResponse
    /\ UNCHANGED << feedResp, period, sched, launched, cycle, rss, idx, store, faults, written >>

\* A decoder that stores the first item as soon as it has decoded it, before
\* it has seen the rest of the body.
ParseBodyStreaming(f) ==
    /\ pc[f] = "parse"
    /\ LET r == Unmarshal(feedResp[f].body)
       IN  IF r.err
           THEN Return(f) /\ UNCHANGED << rss, idx, store, written >>
           ELSE /\ rss' = [rss EXCEPT ![f] = r.Items]
                /\ pc' = [pc EXCEPT ![f] = "range"]
                /\ wg' = wg
                /\ IF Len(r.Items) = 0
                   THEN idx' = [idx EXCEPT ![f] = 1] /\ UNCHANGED << store, written >>
                   ELSE /\ idx' = [idx EXCEPT ![f] = 2]
                        /\ store' = Append(store, NewRow(store, r.Items[1]))
                        /\ written' = [written EXCEPT ![f] = @ + 1]
    /\ resp' = NoResponse
    /\ UNCHANGED << feedResp, period, sched, launched, cycle, faults >>

\* err = xml.Unmarshal(body, &rss)
ParseBody(f) ==
    /\ pc[f] = "parse"
    /\ LET r == Unmarshal(feedResp[f].body)
       IN  IF r.err
           THEN Return(f) /\ UNCHANGED << rss, idx >>
           ELSE /\ rss' = [rss EXCEPT ![f] = r.Items]
                /\ idx' = [idx EXCEPT ![f] = 1]
                /\ pc' = [pc EXCEPT ![f] = "range"]
                /\ wg' = wg
    /\ resp' = NoResponse
    /\ UNCHANGED << feedResp, period, sched, launched, cycle, store, faults, written >>

\* An insert that also prunes: it deletes the oldest row when it adds one.
insertItemPruning(item, execOk) ==
    IF execOk
    THEN /\ store' = (IF Len(store) = 0 THEN << >> ELSE Tail(store))
                         \o << NewRow(store, item) >>
         /\ faults' = faults
    ELSE store' = store /\ faults' = faults + 1

\* insertItem(item): db.Exec either adds the row or returns an error, which
\* is logged and dropped.
insertItem(item, execOk) ==
    IF execOk
    THEN store' = Append(store, NewRow(store, item)) /\ faults' = faults
    ELSE store' = store /\ faults' = faults + 1

\* An iteration that leaves the loop when the insert fails.
RangeItemStopOnError(f) ==
    /\ pc[f] = "range"
    /\ idx[f] <= Len(rss[f])
    /\ \E execOk \in BOOLEAN :
           /\ execOk \/ faults < MaxFaults
           /\ insertItem(rss[f][idx[f]], execOk)
           /\ written' = [written EXCEPT ![f] = IF execOk THEN @ + 1 ELSE @]
           /\ idx' = [idx EXCEPT ![f] = IF execOk THEN idx[f] + 1 ELSE Len(rss[f]) + 1]
    /\ resp' = NoResponse
    /\ UNCHANGED << feedResp, period, sched, launched, wg, cycle, pc, rss >>

\* One iteration of for _, item := range rss.Channel.Items.
RangeItem(f) ==
    /\ pc[f] = "range"
    /\ idx[f] <= Len(rss[f])
    /\ \E execOk \in BOOLEAN :
           /\ execOk \/ faults < MaxFaults
           /\ insertItem(rss[f][idx[f]], execOk)
           /\ written' = [written EXCEPT ![f] = IF execOk THEN @ + 1 ELSE @]
    /\ idx' = [idx EXCEPT ![f] = idx[f] + 1]
    /\ resp' = NoResponse
    /\ UNCHANGED << feedResp, period, sched, launched, wg, cycle, pc, rss >>

\* The range loop is over: fetchRSS returns.
RangeEnd(f) ==
    /\ pc[f] = "range"
    /\ idx[f] > Len(rss[f])
    /\ Return(f)
    /\ resp' = NoResponse
    /\ UNCHANGED << feedResp, period, sched, launched, cycle, rss, idx, store, faults, written >>

(***************************************************************************)
(* apiHandler: one GET /api/news/{count}.                                  *)
(***************************************************************************)
apiHandler ==
    /\ sched # "Panicked"
    /\ \E p \in CountParams, queryOk \in BOOLEAN :
           resp' = ApiResponse(p, queryOk, store)
    /\ UNCHANGED << feedResp, period, sched, launched, wg, cycle, pc, rss, idx, store, faults, written >>

\* The steps of the poller.
Poll ==
    \/ NewTicker
    \/ Tick
    \/ Launch
    \/ WaitDone
    \/ \E f \in Feeds : HttpGet(f)
    \/ \E f \in Feeds : ReadBody(f)
    \/ \E f \in Feeds : ParseBody(f)
    \/ \E f \in Feeds : RangeItem(f)
    \/ \E f \in Feeds : RangeEnd(f)

Next ==
    \/ Poll
    \/ apiHandler

Spec == Init /\ [][Next]_vars

\* The Go scheduler runs every runnable goroutine, and a source that answers
\* at all answers in the end: each step of pollFeeds after a tick and of
\* fetchRSS is taken once it can be.  Ticks and requests come from outside.
Fairness ==
    /\ WF_vars(NewTicker)
    /\ WF_vars(Launch)
    /\ WF_vars(WaitDone)
    /\ \A f \in Feeds :
           /\ WF_vars(HttpGet(f))
           /\ WF_vars(ReadBody(f))
           /\ WF_vars(ParseBody(f))
           /\ WF_vars(RangeItem(f))
           /\ WF_vars(RangeEnd(f))

\* The poller on its own, under that fairness.  A request changes nothing
\* the poller reads, so its progress is the same with and without requests.
FairSpec == Init /\ [][Poll]_vars /\ Fairness

(***************************************************************************)
(* Vocabulary of the claims.                                               *)
(***************************************************************************)
\* p is an optional sign followed by one or more decimal digits.
IsNumeral(p) ==
    LET body == IF Len(p) > 0 /\ p[1] \in {"-", "+"} THEN Tail(p) ELSE p
    IN  Len(body) > 0 /\ \A i \in 1 .. Len(body) : IsDigit(body[i])

\* p is the text of a negative integer.
IsNegativeNumeral(p) ==
    IsNumeral(p) /\ p[1] = "-" /\ \E i \in 2 .. Len(p) : p[i] # "0"

\* p is the text of zero.
IsZeroNumeral(p) ==
    IsNumeral(p) /\ \A i \in 1 .. Len(p) : p[i] \in {"-", "+", "0"}

\* A request was answered in the step just taken.
Answered == resp.status # 0

\* The pubDate text of a stored row, as a query reads it.
StoredText(row) == ColumnText(row.pubDate)

StoredRows == {store[i] : i \in 1 .. Len(store)}

\* Source f answers with a feed that is well formed, whatever the status.
ServesFeed(f) ==
    feedResp[f].net = "ok" /\ ~feedResp[f].readErr /\ feedResp[f].body.wf

\* Source f answers 2xx with a well-formed feed.
Reachable(f) ==
    ServesFeed(f) /\ feedResp[f].status >= 200 /\ feedResp[f].status <= 299

\* The fetch of source f stalls in http.Get.
Stalled(f) == pc[f] = "get" /\ feedResp[f].net = "hang"

\* Every fetch of the current cycle has returned.
AllReturned == launched = NumFeeds /\ \A f \in Feeds : pc[f] = "done"

(***************************************************************************)
(* C1: for a count between 0 and the number of stored entries, a           *)
(* successful getRecent(count) returns exactly count entries, in           *)
(* descending lexicographic order of the pubDate text, and no stored       *)
(* entry left out has a pubDate text above a returned one (fewer than i    *)
(* stored entries are above the i-th returned).                            *)
(***************************************************************************)
C1_RecentOrderedLexicographic ==
    (resp.status = StatusOK /\ resp.count >= 0 /\ resp.count <= Len(store)) =>
        LET arr == resp.json.arr
        IN  /\ Len(arr) = resp.count
            /\ \A i, j \in 1 .. Len(arr) :
                   i < j => LexLeq(arr[j].PubDate, arr[i].PubDate)
            /\ \A i \in 1 .. Len(arr) :
                   Cardinality({r \in StoredRows :
                                   LexLess(arr[i].PubDate, StoredText(r))}) < i

(***************************************************************************)
(* C2: when the two fetches of the first cycle have both returned, each    *)
(* having appended the items of its feed, every one of those entries is    *)
(* in the store, and a query that asks for at least that many sees them    *)
(* all.                                                                    *)
(***************************************************************************)
C2_ConcurrentAppendsPersist ==
    (/\ cycle = 1
     /\ AllReturned
     /\ \A f \in Feeds : ServesFeed(f) /\ Len(rss[f]) > 0) =>
        /\ \A f \in Feeds : written[f] = Len(rss[f])
        /\ Len(store) = Len(rss[1]) + Len(rss[2])
        /\ (resp.status = StatusOK /\ resp.count >= Len(rss[1]) + Len(rss[2])) =>
               Len(resp.json.arr) = Len(rss[1]) + Len(rss[2])

(***************************************************************************)
(* C3: in a cycle with an unreachable source and a reachable sibling, the  *)
(* unreachable source's fetch adds no row, and once the cycle's fetches    *)
(* have returned every entry of the sibling's feed is stored.              *)
(***************************************************************************)
C3_SiblingOfUnreachablePersists ==
    \A f, g \in Feeds :
        (feedResp[f].net = "err" /\ Reachable(g)) =>
            /\ written[f] = 0
            /\ (cycle = 1 /\ AllReturned) =>
                   written[g] = Len(feedResp[g].body.elems)

\* Source f answers with a body that is not well formed.
Malformed(f) ==
    feedResp[f].net = "ok" /\ ~feedResp[f].readErr /\ ~feedResp[f].body.wf

(***************************************************************************)
(* C4: a fetch whose body is not well formed adds no row, and from the     *)
(* moment it is about to parse that body its poll cycle runs on to the     *)
(* scheduler's return to Idle (unless a sibling's http.Get never           *)
(* returns), where the next tick can start a cycle.                        *)
(***************************************************************************)
C4_MalformedFeedYieldsNothing ==
    /\ [](\A f \in Feeds : Malformed(f) => written[f] = 0)
    /\ []((sched = "Idle" /\ cycle < MaxCycles) => ENABLED Tick)
    /\ \A f \in Feeds :
           (Malformed(f) /\ pc[f] = "parse")
               ~> (sched = "Idle" \/ \E g \in Feeds : Stalled(g))

\* A malformed feed was fetched in the first cycle, its reachable sibling
\* was stored, and a second cycle has started and fetched it again.
C4_Witness ==
    \E f, g \in Feeds :
        /\ Malformed(f) /\ Reachable(g)
        /\ cycle = 2 /\ pc[f] = "done" /\ f <= launched
        /\ written[f] = 0 /\ written[g] > 0

(***************************************************************************)
(* C5: a fetch answered with a status outside 2xx adds no row, whatever    *)
(* the body.                                                               *)
(***************************************************************************)
C5_Non2xxYieldsNothing ==
    \A f \in Feeds :
        (/\ feedResp[f].net = "ok"
         /\ (feedResp[f].status < 200 \/ feedResp[f].status > 299)) =>
            written[f] = 0

(***************************************************************************)
(* C6: a request whose count is not a numeral is answered 400 and the      *)
(* table is not queried for it.                                            *)
(***************************************************************************)
C6_NonNumericRejected ==
    (Answered /\ ~IsNumeral(resp.param)) =>
        resp.status = StatusBadRequest /\ ~resp.queried

\* "a" was rejected while the table held rows.
C6_Witness ==
    /\ resp.param = << "a" >>
    /\ resp.status = StatusBadRequest
    /\ ~resp.queried
    /\ Len(store) > 0

(***************************************************************************)
(* C7: a request whose count is the text of a negative integer is          *)
(* answered 400 and never reaches the query.                               *)
(***************************************************************************)
C7_NegativeRejected ==
    (Answered /\ IsNegativeNumeral(resp.param)) =>
        resp.status = StatusBadRequest /\ ~resp.queried

\* The request is for count 0, or for a non-negative count of an empty table.
AsksForNothing ==
    /\ Answered
    /\ IsNumeral(resp.param)
    /\ ~IsNegativeNumeral(resp.param)
    /\ IsZeroNumeral(resp.param) \/ Len(store) = 0

(***************************************************************************)
(* C8, as claimed: for count 0 and for an empty table the answer is 200    *)
(* with an empty array, never an error.                                    *)
(***************************************************************************)
C8_NothingIsNeverAnError ==
    AsksForNothing =>
        resp.status = StatusOK /\ resp.json = [null |-> FALSE, arr |-> << >>]

(***************************************************************************)
(* C8, amended: for count 0 and for an empty table the answer is 200 with  *)
(* an empty array (never null), or 500 when the query itself failed;       *)
(* never 400, never a null or non-empty body.                              *)
(***************************************************************************)
C8_NothingIsEmptyArrayOrServerFault ==
    AsksForNothing =>
        \/ resp.status = StatusOK /\ resp.json = [null |-> FALSE, arr |-> << >>]
        \/ resp.status = StatusInternalServerError /\ resp.queried

\* Count 0 was answered with an empty array while a poll cycle was running
\* and the table held rows.
C8_Witness ==
    /\ resp.param = << "0" >>
    /\ resp.status = StatusOK
    /\ resp.json = [null |-> FALSE, arr |-> << >>]
    /\ Len(store) > 0
    /\ sched = "Fetching"

(***************************************************************************)
(* C9: after k completed cycles a reachable, unchanged feed of n items     *)
(* has k*n rows in the table.                                              *)
(***************************************************************************)
C9_EveryCycleInsertsAgain ==
    \A f \in Feeds :
        (Reachable(f) /\ sched = "Idle") =>
            written[f] = cycle * Len(feedResp[f].body.elems)

\* What a child element of an item must become: its text, or "" when absent.
IsTextOf(text, child) ==
    /\ child = Absent => text = EmptyText
    /\ child # Absent => text = child[1]

(***************************************************************************)
(* C10: a fetch of a well-formed feed decodes one Item per item element,   *)
(* in order, an absent child giving empty text; it hands every one of      *)
(* them to insertItem, so that without insert errors each completed cycle  *)
(* adds them all; and a row stored for an item with an absent child holds  *)
(* empty text there.                                                       *)
(***************************************************************************)
C10_OneEntryPerItem ==
    /\ \A f \in Feeds :
           (ServesFeed(f) /\ pc[f] \in {"range", "done"}) =>
               LET elems == feedResp[f].body.elems
               IN  /\ Len(rss[f]) = Len(elems)
                   /\ \A i \in 1 .. Len(elems) :
                          /\ i <= Len(rss[f])
                          /\ IsTextOf(rss[f][i].Title, elems[i].title)
                          /\ IsTextOf(rss[f][i].Description, elems[i].description)
                          /\ IsTextOf(rss[f][i].Link, elems[i].link)
                          /\ IsTextOf(rss[f][i].PubDate, elems[i].pubDate)
                   /\ pc[f] = "done" => idx[f] = Len(elems) + 1
                   /\ (sched = "Idle" /\ faults = 0) =>
                          written[f] = cycle * Len(elems)
    /\ \A r \in StoredRows :
           \E k \in 1 .. Len(SourceItems) :
               LET e == SourceItems[k]
               IN  /\ IsTextOf(r.title, e.title)
                   /\ IsTextOf(r.description, e.description)
                   /\ IsTextOf(r.link, e.link)
                   /\ IsTextOf(StoredText(r), e.pubDate)
                   /\ e.pubDate = Absent => r.pubDate.cls = "text"

\* A feed of two items, the first with no child at all, was fetched to the
\* end and both rows are stored, the first with four empty texts.
C10_Witness ==
    \E f \in Feeds :
        /\ ServesFeed(f) /\ pc[f] = "done"
        /\ feedResp[f].body.elems = << ElemBare, ElemFull >>
        /\ Len(store) = 2
        /\ store[1].title = EmptyText /\ store[1].description = EmptyText
        /\ store[1].link = EmptyText /\ store[1].pubDate = SqlText(EmptyText)
        /\ store[2].title = << "T" >>

\* The fetch of source f is in flight: launched and not yet returned.
InFlight(f) == pc[f] \in {"get", "read", "parse", "range"}

(***************************************************************************)
(* C11: the scheduler goes from Fetching to Idle only when every fetch of  *)
(* the tick has returned; while it is Idle, and so at every tick, no fetch *)
(* is in flight, so the fetches in flight are always those of one cycle;   *)
(* and while a fetch hangs the scheduler stays in Fetching and no further  *)
(* cycle starts.                                                           *)
(***************************************************************************)
C11_BarrierBetweenCycles ==
    /\ [][(sched = "Fetching" /\ sched' = "Idle") => AllReturned]_vars
    /\ [](sched = "Idle" => \A f \in Feeds : ~InFlight(f))
    /\ [][cycle' # cycle => \A f \in Feeds : ~InFlight(f)]_vars
    /\ [](\A f \in Feeds : Stalled(f) => sched = "Fetching")
    /\ [][(\E f \in Feeds : Stalled(f)) =>
             (cycle' = cycle /\ sched' = "Fetching")]_vars

\* In the first cycle one fetch hangs in http.Get while its sibling has
\* stored its feed and returned: the scheduler still waits.
C11_Witness ==
    \E f, g \in Feeds :
        /\ Stalled(f) /\ pc[g] = "done" /\ written[g] > 0
        /\ launched = NumFeeds /\ wg = 1
        /\ sched = "Fetching" /\ cycle = 1

\* The next step of the fetch of source g can be taken, and an append of it
\* can succeed.
CanProceed(g) ==
    /\ (pc[g] = "get" /\ feedResp[g].net # "hang") => ENABLED HttpGet(g)
    /\ pc[g] = "read" => ENABLED ReadBody(g)
    /\ pc[g] = "parse" => ENABLED ParseBody(g)
    /\ (pc[g] = "range" /\ idx[g] <= Len(rss[g])) =>
           ENABLED (RangeItem(g) /\ written'[g] = written[g] + 1)
    /\ (pc[g] = "range" /\ idx[g] > Len(rss[g])) => ENABLED RangeEnd(g)

\* A query for as many entries as are stored, when its read succeeds,
\* returns every stored row.
AllVisible ==
    LET r == ApiResponse(Itoa(Len(store)), TRUE, store)
    IN  /\ r.status = StatusOK
        /\ Len(r.json.arr) = Len(store)
        /\ \A i \in 1 .. Len(store) :
               \E j \in 1 .. Len(r.json.arr) : r.json.arr[j] = ScanRow(store[i])

(***************************************************************************)
(* C12: while the fetch of one source hangs in http.Get (or has failed),   *)
(* the fan-out still launches every other source, each step of a sibling   *)
(* fetch can be taken and each of its appends can succeed, the rows stored *)
(* are all returned by a query, and every sibling whose own source does    *)
(* not hang runs on to its return in that cycle.                           *)
(***************************************************************************)
C12_StalledFetchBlocksNoSibling ==
    /\ []((sched = "Fetching" /\ launched < NumFeeds) => ENABLED Launch)
    /\ [](\A g \in Feeds : CanProceed(g))
    /\ []((\E f \in Feeds : Stalled(f)) => AllVisible)
    /\ \A f, g \in Feeds :
           (Stalled(f) /\ feedResp[g].net # "hang")
               ~> (Stalled(f) /\ g <= launched /\ pc[g] = "done")

\* The first source hangs in http.Get; the second, launched after it, has
\* stored the two items of its feed and returned.
C12_Witness ==
    /\ Stalled(1)
    /\ Reachable(2) /\ pc[2] = "done"
    /\ written[2] = 2 /\ Len(store) = 2
    /\ AllVisible

\* The fetches of the current fan-out that have not returned.
Outstanding == {f \in 1 .. launched : pc[f] # "done"}

(***************************************************************************)
(* C13: a fetch signals the wait group exactly once, when it returns, on   *)
(* whichever path it returns: the counter is always the number of fetches  *)
(* launched and not yet returned, so it is never negative; and once every  *)
(* fetch of a tick has returned the scheduler comes back to Idle, so a     *)
(* cycle always ends unless a fetch hangs.                                 *)
(***************************************************************************)
C13_DoneOncePerFetch ==
    /\ [](wg = Cardinality(Outstanding) /\ wg >= 0)
    /\ [][\A f \in Feeds :
             (pc[f] # "done" /\ pc'[f] = "done") => wg' = wg - 1]_vars
    /\ [][wg' < wg =>
             (wg' = wg - 1 /\ \E f \in Feeds : InFlight(f) /\ pc'[f] = "done")]_vars
    /\ (sched = "Fetching" /\ AllReturned) ~> (sched = "Idle")
    /\ (sched = "Fetching") ~> (sched = "Idle" \/ \E g \in Feeds : Stalled(g))

\* Two cycles have ended, in each of which one fetch returned on a body
\* that failed to read and the other at the end of its range loop.
C13_Witness ==
    /\ feedResp[1] = BrokenBody
    /\ Reachable(2) /\ written[2] > 0
    /\ \A f \in Feeds : pc[f] = "done"
    /\ cycle = 2 /\ sched = "Idle" /\ wg = 0

(***************************************************************************)
(* C14, as claimed: a row of a source is added only when the fetch that    *)
(* owns it has completed, that is, returned.                               *)
(***************************************************************************)
C14_WrittenAfterFetchReturns ==
    [][\A f \in Feeds : written'[f] # written[f] => pc[f] = "done"]_vars

\* Both fetches of a cycle are in their range loops with an item left.
BothAppending(f, g) ==
    /\ f # g
    /\ pc[f] = "range" /\ idx[f] <= Len(rss[f])
    /\ pc[g] = "range" /\ idx[g] <= Len(rss[g])

(***************************************************************************)
(* C14, amended: a row of a source is added only by the fetch that owns    *)
(* it, after that fetch has retrieved and decoded the whole feed and       *)
(* before it returns, inside its poll cycle; before the decode is over the *)
(* fetch has added nothing; and when two fetches both have an item left to *)
(* append, either may append next.                                         *)
(***************************************************************************)
C14_WrittenAfterDecodeBeforeReturn ==
    /\ [][\A f \in Feeds :
             written'[f] # written[f] =>
                 /\ pc[f] = "range" /\ pc'[f] = "range"
                 /\ rss[f] = Unmarshal(feedResp[f].body).Items
                 /\ idx[f] <= Len(rss[f])
                 /\ written'[f] = written[f] + 1
                 /\ store' = Append(store, NewRow(store, rss[f][idx[f]]))
                 /\ sched = "Fetching" /\ f \in Outstanding]_vars
    /\ [](\A f \in Feeds :
             (cycle = 1 /\ pc[f] \in {"get", "read", "parse"}) => written[f] = 0)
    /\ [](\A f, g \in Feeds :
             BothAppending(f, g) => (ENABLED RangeItem(f) /\ ENABLED RangeItem(g)))

\* In the first cycle the second source's only entry was stored before the
\* first source's, and the first source's fetch has stored its entry and
\* not yet returned.
C14_Witness ==
    /\ feedResp[1].body.elems = << ElemFull >> /\ Reachable(1)
    /\ feedResp[2].body.elems = << ElemBare >> /\ Reachable(2)
    /\ cycle = 1 /\ Len(store) = 2
    /\ store[1].title = EmptyText /\ store[2].title = << "T" >>
    /\ written[1] = 1 /\ pc[1] = "range"

(***************************************************************************)
(* C15: a failed insert changes nothing but the log: the store, the        *)
(* scheduler, the wait group and the sibling fetches are as they were and  *)
(* the same fetch moves on to its next item; a fetch that returns from a   *)
(* well-formed feed has attempted every item of it; after a failure the    *)
(* next append can succeed; the process does not die; the cycle runs on to *)
(* Idle (unless a fetch hangs) and the next tick can start another.        *)
(***************************************************************************)
C15_FailedAppendIsSwallowed ==
    /\ [][faults' # faults =>
             /\ faults' = faults + 1
             /\ store' = store /\ written' = written
             /\ sched' = sched /\ wg' = wg /\ rss' = rss /\ pc' = pc
             /\ \E f \in Feeds :
                    /\ pc[f] = "range"
                    /\ idx' = [idx EXCEPT ![f] = idx[f] + 1]]_vars
    /\ [](\A f \in Feeds :
             (ServesFeed(f) /\ f <= launched /\ pc[f] = "done") =>
                 idx[f] = Len(feedResp[f].body.elems) + 1)
    /\ [](\A f \in Feeds :
             (faults > 0 /\ pc[f] = "range" /\ idx[f] <= Len(rss[f])) =>
                 ENABLED (RangeItem(f) /\ written'[f] = written[f] + 1))
    /\ [](faults > 0 => sched \in {"Fetching", "Idle"})
    /\ []((faults > 0 /\ sched = "Idle" /\ cycle < MaxCycles) => ENABLED Tick)
    /\ (faults > 0 /\ sched = "Fetching")
           ~> (sched = "Idle" \/ \E g \in Feeds : Stalled(g))

\* The insert of the first item of a feed of two failed, the second item
\* was stored, the cycle ended and the next one has started.
C15_Witness ==
    \E f \in Feeds :
        /\ feedResp[f].body.elems = << ElemBare, ElemFull >> /\ Reachable(f)
        /\ faults = 1 /\ written[f] = 1
        /\ \E i \in 1 .. Len(store) : store[i].title = << "T" >>
        /\ \A i \in 1 .. Len(store) : store[i].id = i
        /\ cycle = 2 /\ sched = "Fetching" /\ pc[f] = "get"

(***************************************************************************)
(* C16: every step keeps every stored row where it is, with the same       *)
(* title, description, link and pubDate, and at most adds one row at the   *)
(* end; a step that answers a request leaves the table as it was; and a    *)
(* query for as many entries as are stored returns every stored row.       *)
(***************************************************************************)
C16_StoreIsAppendOnly ==
    /\ [][/\ Len(store') \in {Len(store), Len(store) + 1}
          /\ \A i \in 1 .. Len(store) :
                 /\ i <= Len(store')
                 /\ store'[i] = store[i]]_vars
    /\ [][resp'.status # 0 => store' = store]_vars
    /\ [](\A i \in 1 .. Len(store) : store[i].id = i)
    /\ [](AllVisible)

\* The rows of the first cycle are still there, in place, after a second
\* cycle has added its own and a query has just been answered with a row.
C16_Witness ==
    /\ cycle = 2 /\ sched = "Idle"
    /\ Len(store) = 4
    /\ \A f \in Feeds : written[f] = 2
    /\ resp.status = StatusOK /\ Len(resp.json.arr) = 1

(***************************************************************************)
(* C17: with a configured period that is not positive the poller does not  *)
(* kill the process, and whenever its ticker runs, it runs on a positive   *)
(* interval.                                                               *)
(***************************************************************************)
C17_NonPositivePeriodIsSafe ==
    period <= 0 =>
        /\ sched # "Panicked"
        /\ sched \in {"Idle", "Fetching"} => Duration(period) > 0

(***************************************************************************)
(* C18: a request whose count is accepted and whose read succeeds is       *)
(* answered with min(count, number of stored rows) entries, never more     *)
(* than count.                                                             *)
(***************************************************************************)
C18_LengthIsMinOfCountAndStored ==
    resp.status = StatusOK =>
        /\ Len(resp.json.arr) =
               (IF resp.count <= Len(store) THEN resp.count ELSE Len(store))
        /\ Len(resp.json.arr) <= resp.count

\* No fetch has been launched and no row added.
Untouched ==
    /\ launched = 0 /\ wg = 0
    /\ \A f \in Feeds : pc[f] = "none" /\ written[f] = 0
    /\ store = << >> /\ faults = 0

(***************************************************************************)
(* C19: until the first tick no fetch has been launched and no row added,  *)
(* and the scheduler is not fetching: it is Idle (about to make its ticker *)
(* or waiting on it) when the period is positive; the scheduler enters     *)
(* Fetching only from Idle on a tick, which starts a new cycle with a      *)
(* fresh fan-out; and fetches are launched and rows added only in a cycle  *)
(* that a tick has started.                                                *)
(***************************************************************************)
C19_NothingBeforeFirstTick ==
    /\ [](cycle = 0 => (Untouched /\ sched # "Fetching"))
    /\ []((cycle = 0 /\ Duration(period) > 0) => sched \in {"Start", "Idle"})
    /\ [][(sched # "Fetching" /\ sched' = "Fetching") =>
             (sched = "Idle" /\ cycle' = cycle + 1 /\ launched' = 0 /\ wg' = 0)]_vars
    /\ [][cycle' # cycle => (sched = "Idle" /\ sched' = "Fetching")]_vars
    /\ [][(launched' > launched \/ store' # store) =>
             (cycle >= 1 /\ sched = "Fetching")]_vars

\* Before the first tick, with the ticker running, a request for one entry
\* was answered with an empty array.
C19_Witness ==
    /\ cycle = 0 /\ sched = "Idle" /\ Duration(period) > 0
    /\ Untouched
    /\ resp.param = << "1" >> /\ resp.status = StatusOK
    /\ resp.json = [null |-> FALSE, arr |-> << >>]

=============================================================================
